---- MODULE Spec2Model ----
(***************************************************************************)
(* Model of UnifiedAnalyticsMCPServer (unified_analytics_server.py): the   *)
(* site registry, the lazily initialised GSC / GA4 service handles, the    *)
(* query builders, the report composers and the two dispatcher entry       *)
(* points handle_call_tool and handle_read_resource.                       *)
(*                                                                         *)
(* Python values are modelled as follows.  A dict is a function whose      *)
(* domain is the set of its keys; a list is a sequence; None is the        *)
(* string "None" where a value is expected and NoHandle for a service      *)
(* handle.  An exception is a record [type, msg] whose msg is the sequence *)
(* of string pieces str(e) is made of.  Every operation that may raise     *)
(* returns [ok, val, exc, calls]: calls is the log of the upstream         *)
(* requests it issued, in order, each with the handle it was issued via.   *)
(***************************************************************************)
EXTENDS Integers, Sequences, FiniteSets, TLC

VARIABLES
    sites,        \* self.sites: site key -> [gsc_url, ga4_property_id]
    gsc_service,  \* self.gsc_service: NoHandle or the id of the built client
    ga4_client,   \* self.ga4_client: NoHandle or the id of the built client
    credLoads,    \* number of Credentials.from_service_account_file calls
    gscBuilds,    \* number of build('searchconsole', ...) calls that returned
    ga4Builds,    \* number of BetaAnalyticsDataClient(...) calls that returned
    pending,      \* a composer call about to be made (composer specification)
    last          \* the last request handled and what came of it

vars == <<sites, gsc_service, ga4_client, credLoads, gscBuilds, ga4Builds,
          pending, last>>

(***************************************************************************)
(* Bounds of the model.                                                    *)
(***************************************************************************)
MaxInitAttempts == 2   \* credential loads per run of the model
MaxGscRows == 11       \* rows of an upstream GSC response
MaxGa4Rows == 6        \* rows of an upstream GA4 response
MaxArity == 2          \* requested dimensions / metrics of a raw GA4 report
PatLen == 2            \* period of the page pattern of upstream rows
MaxReshapeRows == 2    \* rows of the GA4 response of a raw report

(***************************************************************************)
(* Python helpers.                                                         *)
(***************************************************************************)
NoHandle == 0
None == "None"

Min(a, b) == IF a < b THEN a ELSE b

\* d[k] = v on a dict
Put(d, k, v) == [y \in (DOMAIN d) \cup {k} |-> IF y = k THEN v ELSE d[y]]

\* del d[k]
Del(d, k) == [y \in (DOMAIN d) \ {k} |-> d[y]]

\* d.get(k, default)
Get(d, k, default) == IF k \in DOMAIN d THEN d[k] ELSE default

\* s[:n]
Take(s, n) == SubSeq(s, 1, Min(Len(s), n))

NoExc == [type |-> "none", msg |-> <<>>]

Ret(v, cs) == [ok |-> TRUE, val |-> v, exc |-> NoExc, calls |-> cs]
Raise(type, msg, cs) ==
    [ok |-> FALSE, val |-> None, exc |-> [type |-> type, msg |-> msg], calls |-> cs]

(***************************************************************************)
(* Site registry (__init__).                                               *)
(***************************************************************************)
\* os.environ.get(name, default)
EnvGet(env, name, default) == IF name \in DOMAIN env THEN env[name] ELSE default

MakeSites(env) ==
    [vesivanov |->
        [gsc_url |-> EnvGet(env, "GSC_SITE_URL", "sc-domain:vesivanov.com"),
         ga4_property_id |-> EnvGet(env, "GA4_PROPERTY_ID", "487808497")],
     mebelcenter |->
        [gsc_url |-> EnvGet(env, "MEBELCENTER_GSC_URL", "sc-domain:mebelcenter.bg"),
         ga4_property_id |-> EnvGet(env, "MEBELCENTER_GA4_PROPERTY_ID", None)]]

\* The process environments the model starts from.  __init__ exits when
\* MEBELCENTER_GA4_PROPERTY_ID is unset, so every environment sets it.
DefaultEnvironment == [MEBELCENTER_GA4_PROPERTY_ID |-> "222222222"]

Environments ==
    { DefaultEnvironment,
      [MEBELCENTER_GA4_PROPERTY_ID |-> "333333333",
       GSC_SITE_URL |-> "https://vesivanov.com/",
       GA4_PROPERTY_ID |-> "111111111",
       MEBELCENTER_GSC_URL |-> "https://mebelcenter.bg/"] }

\* self.sites[site]: a KeyError (str(e) is repr(key)) for an absent key
SiteLookupDefaulting(reg, site) ==
    IF site \in DOMAIN reg THEN Ret(reg[site], <<>>) ELSE Ret(reg["vesivanov"], <<>>)

SiteLookup(reg, site) ==
    IF site \in DOMAIN reg THEN Ret(reg[site], <<>>)
    ELSE Raise("KeyError", <<"'", site, "'">>, <<>>)

(***************************************************************************)
(* Service handles.  self is the record of the instance attributes;        *)
(* io = [credOk, gscOk, ga4Ok] says which of the three library calls of    *)
(* _initialize_services succeed.                                           *)
(***************************************************************************)
Self ==
    [sites |-> sites, gsc_service |-> gsc_service, ga4_client |-> ga4_client,
     credLoads |-> credLoads, gscBuilds |-> gscBuilds, ga4Builds |-> ga4Builds]

InitIO == [credOk : BOOLEAN, gscOk : BOOLEAN, ga4Ok : BOOLEAN]

InitFailure(detail) ==
    [type |-> "Exception", msg |-> <<"Failed to initialize services: ", detail>>]

\* Returns [self, ok, exc]: the attributes after the call and how it ended.
InitializeServices(self, io) ==
    LET s1 == [self EXCEPT !.credLoads = @ + 1] IN
    IF ~io.credOk
    THEN [self |-> s1, ok |-> FALSE, exc |-> InitFailure("<credentials error>")]
    ELSE IF ~io.gscOk
    THEN [self |-> s1, ok |-> FALSE, exc |-> InitFailure("<build error>")]
    ELSE
      LET s2 == [s1 EXCEPT !.gscBuilds = @ + 1, !.gsc_service = s1.gscBuilds + 1] IN
      IF ~io.ga4Ok
      THEN [self |-> s2, ok |-> FALSE, exc |-> InitFailure("<client error>")]
      ELSE [self |-> [s2 EXCEPT !.ga4Builds = @ + 1, !.ga4_client = s2.ga4Builds + 1],
            ok |-> TRUE, exc |-> NoExc]

\* if not self.gsc_service or not self.ga4_client
NeedsInitAlways(self) == TRUE

\* the test of _ensure_services_initialized looking at the GSC handle only
NeedsInitGscOnly(self) == self.gsc_service = NoHandle

NeedsInit(self) == self.gsc_service = NoHandle \/ self.ga4_client = NoHandle

\* Returns [self, ok, exc, ran]: ran says whether _initialize_services was called.
EnsureServicesInitialized(self, io) ==
    IF NeedsInit(self)
    THEN LET r == InitializeServices(self, io) IN
         [self |-> r.self, ok |-> r.ok, exc |-> r.exc, ran |-> TRUE]
    ELSE [self |-> self, ok |-> TRUE, exc |-> NoExc, ran |-> FALSE]

(***************************************************************************)
(* Upstream responses.  A response is [fail, detail, ...]: fail is "none"  *)
(* or the type of the exception the client library raises.  A GSC response *)
(* carries the decoded JSON body, whose 'rows' key may be missing; a GA4   *)
(* response carries rows of positional dimension_values / metric_values.   *)
(***************************************************************************)
NoKeys == "<no keys>"

\* The page of upstream row i under the page pattern pat
PatAt(pat, i) == pat[((i - 1) % Len(pat)) + 1]

GscRow(i, page) ==
    IF page = NoKeys THEN [position |-> i]
    ELSE [keys |-> <<page, "q" \o ToString(i)>>, position |-> i]

GscRowsOf(n, pat) == [i \in 1..n |-> GscRow(i, PatAt(pat, i))]

GscOk(rows) == [fail |-> "none", detail |-> "", body |-> [rows |-> rows]]
GscNoRowsKey == [fail |-> "none", detail |-> "", body |-> [responseAggregationType |-> "auto"]]
GscHttpError == [fail |-> "HttpError", detail |-> "<HttpError 403>", body |-> <<>>]
GscOtherError == [fail |-> "TimeoutError", detail |-> "<timed out>", body |-> <<>>]

Ga4RowOf(i, nd, nm, page) ==
    [dimension_values |->
        [j \in 1..nd |-> IF j = 1 THEN page ELSE "d" \o ToString(i) \o "_" \o ToString(j)],
     metric_values |-> [j \in 1..nm |-> "m" \o ToString(i) \o "_" \o ToString(j)]]

Ga4RowsOf(n, nd, nm, pat) == [i \in 1..n |-> Ga4RowOf(i, nd, nm, PatAt(pat, i))]

Ga4Ok(rows) == [fail |-> "none", detail |-> "", rows |-> rows]
Ga4Error == [fail |-> "PermissionDenied", detail |-> "<403 permission denied>", rows |-> <<>>]

(***************************************************************************)
(* GSC query builder.  An omitted dimensions argument (None) is modelled   *)
(* as the empty list: the code only tests its truth value.                 *)
(***************************************************************************)
GscRequestBody(start_date, end_date, dimensions, row_limit) ==
    LET request_body ==
            [startDate |-> start_date, endDate |-> end_date, rowLimit |-> row_limit]
    IN IF dimensions # <<>> THEN Put(request_body, "dimensions", dimensions)
       ELSE request_body

\* _gsc_search_analytics issuing the request a second time after an HttpError
GscSearchAnalyticsRetrying(self, start_date, end_date, site, dimensions, row_limit, resp) ==
    LET lk == SiteLookup(self.sites, site) IN
    IF ~lk.ok THEN lk
    ELSE
      LET site_url == lk.val.gsc_url
          call == [api |-> "gsc", via |-> self.gsc_service, siteUrl |-> site_url,
                   body |-> GscRequestBody(start_date, end_date, dimensions, row_limit)]
          rows == Get(resp.body, "rows", <<>>)
      IN IF self.gsc_service = NoHandle
         THEN Raise("AttributeError",
                    <<"'NoneType' object has no attribute 'searchanalytics'">>, <<>>)
         ELSE IF resp.fail = "HttpError"
         THEN Raise("Exception", <<"GSC API error: ", resp.detail>>, <<call, call>>)
         ELSE IF resp.fail # "none"
         THEN Raise(resp.fail, <<resp.detail>>, <<call>>)
         ELSE Ret([source |-> "Google Search Console",
                   site |-> site,
                   site_url |-> site_url,
                   date_range |-> start_date \o " to " \o end_date,
                   total_rows |-> Len(rows),
                   dimensions |-> dimensions,
                   data |-> rows], <<call>>)

GscSearchAnalytics(self, start_date, end_date, site, dimensions, row_limit, resp) ==
    LET lk == SiteLookup(self.sites, site) IN
    IF ~lk.ok THEN lk
    ELSE
      LET site_url == lk.val.gsc_url
          call == [api |-> "gsc", via |-> self.gsc_service, siteUrl |-> site_url,
                   body |-> GscRequestBody(start_date, end_date, dimensions, row_limit)]
          rows == Get(resp.body, "rows", <<>>)
      IN IF self.gsc_service = NoHandle
         THEN Raise("AttributeError",
                    <<"'NoneType' object has no attribute 'searchanalytics'">>, <<>>)
         ELSE IF resp.fail = "HttpError"
         THEN Raise("Exception", <<"GSC API error: ", resp.detail>>, <<call>>)
         ELSE IF resp.fail # "none"
         THEN Raise(resp.fail, <<resp.detail>>, <<call>>)
         ELSE Ret([source |-> "Google Search Console",
                   site |-> site,
                   site_url |-> site_url,
                   date_range |-> start_date \o " to " \o end_date,
                   total_rows |-> Len(rows),
                   dimensions |-> dimensions,
                   data |-> rows], <<call>>)

GscTopQueries(self, start_date, end_date, site, limit, resp) ==
    GscSearchAnalytics(self, start_date, end_date, site, <<"query">>, limit, resp)

(***************************************************************************)
(* GA4 query builder.  Indices are Python's: the first value has i = 0.    *)
(***************************************************************************)
FieldNameShifted(names, i, prefix) ==
    IF i + 1 < Len(names) THEN names[i + 2] ELSE prefix \o ToString(i)

\* names[i] if i < len(names) else f"{prefix}{i}"
FieldName(names, i, prefix) ==
    IF i < Len(names) THEN names[i + 1] ELSE prefix \o ToString(i)

\* for i, value in enumerate(values): row_data[name(i)] = value.value
RECURSIVE AssignFields(_, _, _, _, _)
AssignFields(row_data, names, values, prefix, i) ==
    IF i >= Len(values) THEN row_data
    ELSE AssignFields(Put(row_data, FieldName(names, i, prefix), values[i + 1]),
                      names, values, prefix, i + 1)

RowData(dimensions, metrics, row) ==
    AssignFields(AssignFields(<<>>, dimensions, row.dimension_values, "dimension_", 0),
                 metrics, row.metric_values, "metric_", 0)

\* for row in response.rows: rows.append(row_data)
RECURSIVE ReshapeRows(_, _, _)
ReshapeRows(dimensions, metrics, upstream) ==
    IF upstream = <<>> THEN <<>>
    ELSE <<RowData(dimensions, metrics, Head(upstream))>>
         \o ReshapeRows(dimensions, metrics, Tail(upstream))

Ga4RunReport(self, dimensions, metrics, start_date, end_date, site, limit, resp) ==
    LET lk == SiteLookup(self.sites, site) IN
    IF ~lk.ok THEN lk
    ELSE
      LET property_id == lk.val.ga4_property_id
          call == [api |-> "ga4", via |-> self.ga4_client,
                   property |-> "properties/" \o property_id,
                   dimensions |-> dimensions, metrics |-> metrics,
                   start_date |-> start_date, end_date |-> end_date, limit |-> limit]
          rows == ReshapeRows(dimensions, metrics, resp.rows)
      IN IF self.ga4_client = NoHandle
         THEN Raise("Exception",
                    <<"GA4 API error: ",
                      "'NoneType' object has no attribute 'run_report'">>, <<>>)
         ELSE IF resp.fail # "none"
         THEN Raise("Exception", <<"GA4 API error: ", resp.detail>>, <<call>>)
         ELSE Ret([source |-> "Google Analytics 4",
                   site |-> site,
                   property_id |-> property_id,
                   date_range |-> start_date \o " to " \o end_date,
                   dimensions |-> dimensions,
                   metrics |-> metrics,
                   row_count |-> Len(rows),
                   data |-> rows], <<call>>)

(***************************************************************************)
(* Report composers.                                                       *)
(***************************************************************************)
\* A failure of a later step keeps the upstream calls made before it.
After(prior, r) == [r EXCEPT !.calls = prior \o @]

OverviewMetrics ==
    <<"sessions", "totalUsers", "newUsers", "screenPageViews",
      "bounceRate", "averageSessionDuration", "sessionsPerUser">>

OverviewLimit == 1

LiftOverviewKeepingData(result) ==
    IF result.data # <<>> THEN Put(result, "overview", result.data[1]) ELSE result

\* if result['data']: result['overview'] = result['data'][0]; del result['data']
LiftOverview(result) ==
    IF result.data # <<>>
    THEN Del(Put(result, "overview", result.data[1]), "data")
    ELSE result

Ga4TrafficOverview(self, start_date, end_date, site, resp) ==
    LET r == Ga4RunReport(self, <<>>, OverviewMetrics, start_date, end_date, site,
                          OverviewLimit, resp)
    IN IF ~r.ok THEN r ELSE Ret(LiftOverview(r.val), r.calls)

TopPagesDimensions == <<"pagePath", "pageTitle">>
TopPagesMetrics(metric) == <<metric, "sessions", "totalUsers", "bounceRate">>

Ga4TopPages(self, start_date, end_date, site, metric, limit, resp) ==
    Ga4RunReport(self, TopPagesDimensions, TopPagesMetrics(metric),
                 start_date, end_date, site, limit, resp)

AcquisitionDimensions == <<"sessionSource", "sessionMedium">>
AcquisitionMetrics ==
    <<"sessions", "totalUsers", "newUsers", "bounceRate", "averageSessionDuration">>

Ga4AcquisitionReport(self, start_date, end_date, site, limit, resp) ==
    Ga4RunReport(self, AcquisitionDimensions, AcquisitionMetrics,
                 start_date, end_date, site, limit, resp)

\* Row limits requested and list lengths kept by _combined_performance_report
CombinedGscRowLimit == 20
CombinedPagesLimit == 10
CombinedSourcesLimit == 10
TopQueriesKept == 10
TopPagesKept == 5
TopSourcesKept == 5

CombinedEnvelopeUntruncated(site, start_date, end_date, gsc_data, ga4_overview, ga4_pages, ga4_acquisition) ==
    [report_type |-> "Combined Performance Report",
     site |-> site,
     date_range |-> start_date \o " to " \o end_date,
     search_console |-> [top_queries |-> Get(gsc_data, "data", <<>>)],
     google_analytics |->
        [overview |-> Get(ga4_overview, "overview", <<>>),
         top_pages |-> Get(ga4_pages, "data", <<>>),
         top_sources |-> Get(ga4_acquisition, "data", <<>>)]]

CombinedEnvelope(site, start_date, end_date, gsc_data, ga4_overview, ga4_pages, ga4_acquisition) ==
    [report_type |-> "Combined Performance Report",
     site |-> site,
     date_range |-> start_date \o " to " \o end_date,
     search_console |->
        [top_queries |-> Take(Get(gsc_data, "data", <<>>), TopQueriesKept)],
     google_analytics |->
        [overview |-> Get(ga4_overview, "overview", <<>>),
         top_pages |-> Take(Get(ga4_pages, "data", <<>>), TopPagesKept),
         top_sources |-> Take(Get(ga4_acquisition, "data", <<>>), TopSourcesKept)]]

\* _combined_performance_report awaiting all four calls and raising the
\* error of the last one that failed
CombinedPerformanceReportLastFailure(self, start_date, end_date, site, up) ==
    LET g == GscSearchAnalytics(self, start_date, end_date, site, <<"query">>,
                                CombinedGscRowLimit, up.gsc)
        o == After(g.calls, Ga4TrafficOverview(self, start_date, end_date, site, up.ga4[1]))
        p == After(o.calls, Ga4TopPages(self, start_date, end_date, site,
                                        "screenPageViews", CombinedPagesLimit, up.ga4[2]))
        a == After(p.calls, Ga4AcquisitionReport(self, start_date, end_date, site,
                                                 CombinedSourcesLimit, up.ga4[3]))
    IN IF ~a.ok THEN a
       ELSE IF ~p.ok THEN [p EXCEPT !.calls = a.calls]
       ELSE IF ~o.ok THEN [o EXCEPT !.calls = a.calls]
       ELSE IF ~g.ok THEN [g EXCEPT !.calls = a.calls]
       ELSE Ret(CombinedEnvelope(site, start_date, end_date, g.val, o.val, p.val, a.val),
                a.calls)

\* up = [gsc, ga4]: the upstream's answers to the GSC call and to the GA4
\* calls, in the order the composer issues them.
CombinedPerformanceReport(self, start_date, end_date, site, up) ==
    LET g == GscSearchAnalytics(self, start_date, end_date, site, <<"query">>,
                                CombinedGscRowLimit, up.gsc)
        o == After(g.calls, Ga4TrafficOverview(self, start_date, end_date, site, up.ga4[1]))
        p == After(o.calls, Ga4TopPages(self, start_date, end_date, site,
                                        "screenPageViews", CombinedPagesLimit, up.ga4[2]))
        a == After(p.calls, Ga4AcquisitionReport(self, start_date, end_date, site,
                                                 CombinedSourcesLimit, up.ga4[3]))
    IN IF ~g.ok THEN g
       ELSE IF ~o.ok THEN o
       ELSE IF ~p.ok THEN p
       ELSE IF ~a.ok THEN a
       ELSE Ret(CombinedEnvelope(site, start_date, end_date, g.val, o.val, p.val, a.val),
                a.calls)

\* None where a dict is expected
NoneDict == [py_none |-> TRUE]

PageGscRowLimit == 100
PageGa4Limit == 1000
PageQueriesKept == 10
PageDimensions == <<"pagePath">>
PageMetrics ==
    <<"screenPageViews", "sessions", "totalUsers", "bounceRate", "averageSessionDuration">>

GscRowMatchesAnyPage(row, page_path) == Len(Get(row, "keys", <<>>)) > 0

\* len(row.get('keys', [])) > 0 and row.get('keys', [''])[0] == page_path
GscRowMatches(row, page_path) ==
    /\ Len(Get(row, "keys", <<>>)) > 0
    /\ Get(row, "keys", <<"">>)[1] = page_path

\* row.get('pagePath') == page_path
Ga4RowMatches(row, page_path) == Get(row, "pagePath", None) = page_path

PageAnalysis(self, page_path, start_date, end_date, site, up) ==
    LET g == GscSearchAnalytics(self, start_date, end_date, site, <<"page", "query">>,
                                PageGscRowLimit, up.gsc)
        r == After(g.calls, Ga4RunReport(self, PageDimensions, PageMetrics,
                                         start_date, end_date, site, PageGa4Limit,
                                         up.ga4[1]))
        page_queries ==
            SelectSeq(Get(g.val, "data", <<>>), LAMBDA row : GscRowMatches(row, page_path))
        page_analytics ==
            SelectSeq(Get(r.val, "data", <<>>), LAMBDA row : Ga4RowMatches(row, page_path))
    IN IF ~g.ok THEN g
       ELSE IF ~r.ok THEN r
       ELSE Ret([site |-> site,
                 page_path |-> page_path,
                 date_range |-> start_date \o " to " \o end_date,
                 search_console |->
                    [queries_count |-> Len(page_queries),
                     top_queries |-> Take(page_queries, PageQueriesKept)],
                 google_analytics |->
                    [page_data |-> IF page_analytics # <<>> THEN page_analytics[1]
                                   ELSE NoneDict]],
                r.calls)

(***************************************************************************)
(* Dispatcher: handle_call_tool.                                           *)
(***************************************************************************)
ToolNames ==
    {"gsc_search_analytics", "gsc_top_queries", "ga4_traffic_overview",
     "ga4_top_pages", "ga4_acquisition_report", "combined_performance_report",
     "page_analysis"}

\* The keyword parameters of the method each tool name is dispatched to
Required(name) ==
    IF name = "page_analysis" THEN {"page_path", "start_date", "end_date"}
    ELSE {"start_date", "end_date"}

Optional(name) ==
    CASE name = "gsc_search_analytics" -> {"site", "dimensions", "row_limit"}
      [] name = "gsc_top_queries" -> {"site", "limit"}
      [] name = "ga4_traffic_overview" -> {"site"}
      [] name = "ga4_top_pages" -> {"site", "metric", "limit"}
      [] name = "ga4_acquisition_report" -> {"site", "limit"}
      [] name = "combined_performance_report" -> {"site"}
      [] name = "page_analysis" -> {"site"}

\* method(**arguments) binds: no required parameter missing, no unknown keyword
Binds(name, arguments) ==
    /\ Required(name) \subseteq DOMAIN arguments
    /\ DOMAIN arguments \subseteq Required(name) \cup Optional(name)

DefaultSite == "vesivanov"
DefaultGscRowLimit == 1000
DefaultTopQueriesLimit == 50
DefaultTopPagesLimit == 20
DefaultAcquisitionLimit == 25

CallMethod(self, name, arguments, up) ==
    LET start_date == arguments["start_date"]
        end_date == arguments["end_date"]
        site == Get(arguments, "site", DefaultSite)
    IN CASE name = "gsc_search_analytics" ->
              GscSearchAnalytics(self, start_date, end_date, site,
                                 Get(arguments, "dimensions", <<>>),
                                 Get(arguments, "row_limit", DefaultGscRowLimit), up.gsc)
         [] name = "gsc_top_queries" ->
              GscTopQueries(self, start_date, end_date, site,
                            Get(arguments, "limit", DefaultTopQueriesLimit), up.gsc)
         [] name = "ga4_traffic_overview" ->
              Ga4TrafficOverview(self, start_date, end_date, site, up.ga4[1])
         [] name = "ga4_top_pages" ->
              Ga4TopPages(self, start_date, end_date, site,
                          Get(arguments, "metric", "screenPageViews"),
                          Get(arguments, "limit", DefaultTopPagesLimit), up.ga4[1])
         [] name = "ga4_acquisition_report" ->
              Ga4AcquisitionReport(self, start_date, end_date, site,
                                   Get(arguments, "limit", DefaultAcquisitionLimit),
                                   up.ga4[1])
         [] name = "combined_performance_report" ->
              CombinedPerformanceReport(self, start_date, end_date, site, up)
         [] name = "page_analysis" ->
              PageAnalysis(self, arguments["page_path"], start_date, end_date, site, up)

\* The body of the try block of handle_call_tool
DispatchTool(self, name, arguments, up) ==
    IF name \notin ToolNames
    THEN Raise("ValueError", <<"Unknown tool: ", name>>, <<>>)
    ELSE IF ~Binds(name, arguments)
    THEN Raise("TypeError", <<"_", name, "() got unexpected or missing arguments">>, <<>>)
    ELSE CallMethod(self, name, arguments, up)

\* json.dumps(value, indent=2): a JSON text, modelled by the value it encodes
JsonDumps(value) == [fmt |-> "json", value |-> value]

\* a str built by an f-string: a text that is no JSON, modelled by its pieces
PlainText(pieces) == [fmt |-> "plain", value |-> pieces]

TextContent(text) == [type |-> "text", text |-> text]

ToolErrorMsg(name, exc) == <<"Error in ", name, ": ">> \o exc.msg

(***************************************************************************)
(* Dispatcher: handle_read_resource.  A URI is the sequence of its pieces, *)
(* "/" being a piece of its own, so that uri.split('/') is computed.       *)
(***************************************************************************)
RECURSIVE SplitFrom(_, _, _, _)
SplitFrom(uri, i, cur, acc) ==
    IF i > Len(uri) THEN Append(acc, cur)
    ELSE IF uri[i] = "/" THEN SplitFrom(uri, i + 1, "", Append(acc, cur))
    ELSE SplitFrom(uri, i + 1, cur \o uri[i], acc)

\* uri.split('/')
Split(uri) == SplitFrom(uri, 1, "", <<>>)

MinUriParts == 5

Periods == {"today", "yesterday", "week", "month"}

\* (today - timedelta(days=n)).isoformat(), relative to the day of the request
IsoDaysAgo(n) == IF n = 0 THEN "<today>" ELSE "<today-" \o ToString(n) \o ">"

StartDate(period) ==
    CASE period = "today" -> IsoDaysAgo(0)
      [] period = "yesterday" -> IsoDaysAgo(1)
      [] period = "week" -> IsoDaysAgo(7)
      [] period = "month" -> IsoDaysAgo(30)

EndDate(period) == IF period = "yesterday" THEN IsoDaysAgo(1) ELSE IsoDaysAgo(0)

\* The body of the try block of handle_read_resource
ReadResource(self, uri, up) ==
    LET parts == Split(uri) IN
    IF Len(parts) < MinUriParts
    THEN Raise("ValueError", <<"Invalid resource URI format: ">> \o uri, <<>>)
    ELSE LET period == parts[4]
             site == parts[5]
         IN IF period \notin Periods
            THEN Raise("ValueError", <<"Unknown period: ", period>>, <<>>)
            ELSE CombinedPerformanceReport(self, StartDate(period), EndDate(period),
                                           site, up)

ResourceErrorMsg(uri, exc) == (<<"Error reading resource ">> \o uri \o <<": ">>) \o exc.msg

(***************************************************************************)
(* handle_list_resources: the URIs the server advertises.                  *)
(***************************************************************************)
Uri(scheme, kind, period, site) == <<scheme, "/", "/", kind, "/", period, "/", site>>

ListResources ==
    {Uri("analytics:", "dashboard", period, site) :
        period \in Periods, site \in {"vesivanov", "mebelcenter"}}

(***************************************************************************)
(* The requests and the upstream answers the server model is driven with.  *)
(***************************************************************************)
NoUp == [gsc |-> GscNoRowsKey, ga4 |-> <<>>]

GscSmall == {GscHttpError, GscOtherError, GscNoRowsKey, GscOk(GscRowsOf(1, <<"/a">>))}

Ga4Small(nd, nm) == {Ga4Error} \cup {Ga4Ok(Ga4RowsOf(n, nd, nm, <<"/a">>)) : n \in 0..1}

CombinedScripts ==
    {[gsc |-> g, ga4 |-> <<o, p, a>>] :
        g \in GscSmall, o \in Ga4Small(0, Len(OverviewMetrics)),
        p \in Ga4Small(Len(TopPagesDimensions), Len(TopPagesMetrics("sessions"))),
        a \in Ga4Small(Len(AcquisitionDimensions), Len(AcquisitionMetrics))}

\* The upstream answers a tool call may meet; none is consumed when the
\* name is unknown or the arguments do not bind.
ToolScripts(name, arguments) ==
    IF name \notin ToolNames \/ ~Binds(name, arguments) THEN {NoUp}
    ELSE CASE name \in {"gsc_search_analytics", "gsc_top_queries"} ->
                {[gsc |-> g, ga4 |-> <<>>] : g \in GscSmall}
           [] name = "ga4_traffic_overview" ->
                {[gsc |-> GscNoRowsKey, ga4 |-> <<r>>] :
                    r \in Ga4Small(0, Len(OverviewMetrics))}
           [] name = "ga4_top_pages" ->
                {[gsc |-> GscNoRowsKey, ga4 |-> <<r>>] :
                    r \in Ga4Small(Len(TopPagesDimensions), Len(TopPagesMetrics("sessions")))}
           [] name = "ga4_acquisition_report" ->
                {[gsc |-> GscNoRowsKey, ga4 |-> <<r>>] :
                    r \in Ga4Small(Len(AcquisitionDimensions), Len(AcquisitionMetrics))}
           [] name = "combined_performance_report" -> CombinedScripts
           [] name = "page_analysis" ->
                {[gsc |-> g, ga4 |-> <<r>>] :
                    g \in GscSmall, r \in Ga4Small(Len(PageDimensions), Len(PageMetrics))}

\* The upstream answers a resource read may meet; none is consumed when the
\* URI is rejected.
ResourceScripts(uri) ==
    IF Len(Split(uri)) < MinUriParts \/ Split(uri)[4] \notin Periods THEN {NoUp}
    ELSE CombinedScripts

BaseArgs == [start_date |-> "2024-01-01", end_date |-> "2024-01-31"]
SiteArgs == {"vesivanov", "mebelcenter", "unknownsite"}
ArgsWithSite == {BaseArgs} \cup {Put(BaseArgs, "site", s) : s \in SiteArgs}

ArgBags ==
    ArgsWithSite
    \cup {Put(a, "page_path", p) : a \in ArgsWithSite, p \in {"/a", "/b"}}
    \cup {Put(BaseArgs, "metric", m) : m \in {"sessions", "screenPageViews", "totalUsers"}}
    \cup {Put(BaseArgs, "dimensions", <<"page">>)}
    \cup {[end_date |-> "2024-01-31"]}

RequestedNames == ToolNames \cup {"no_such_tool"}

RequestedUris ==
    ListResources
    \cup {Uri("analytics:", "dashboard", "week", "unknownsite"),
          Uri("analytics:", "dashboard", "year", "vesivanov"),
          Uri("analytics:", "dashboard", "", "vesivanov"),
          Uri("http:", "dashboard", "week", "vesivanov"),
          Uri("analytics:", "reports", "month", "mebelcenter"),
          Uri("analytics:", "dashboard", "today", "vesivanov") \o <<"/", "extra">>,
          <<"analytics:", "/", "/", "dashboard", "/", "week">>,
          <<"analytics:", "/", "dashboard", "/", "week", "/", "vesivanov">>,
          <<"dashboard">>}

AllOk == [credOk |-> TRUE, gscOk |-> TRUE, ga4Ok |-> TRUE]

(***************************************************************************)
(* State and actions of the server.                                        *)
(***************************************************************************)
NoRequest == [op |-> "none"]
NoPayload == [fmt |-> "none", value |-> <<>>]

NoLast ==
    [kind |-> "none", name |-> "", arguments |-> <<>>, uri |-> <<>>, up |-> NoUp,
     initRan |-> FALSE, handlesBefore |-> <<NoHandle, NoHandle>>,
     handles |-> <<NoHandle, NoHandle>>, outcome |-> "none", ok |-> FALSE,
     result |-> None, payload |-> NoPayload, exc |-> NoExc, calls |-> <<>>]

\* The instance right after __init__ returned under environment env
Constructed(env) ==
    /\ sites = MakeSites(env)
    /\ gsc_service = NoHandle
    /\ ga4_client = NoHandle
    /\ credLoads = 0
    /\ gscBuilds = 0
    /\ ga4Builds = 0

Init ==
    /\ \E env \in Environments : Constructed(env)
    /\ pending = NoRequest
    /\ last = NoLast

SetSelf(self) ==
    /\ sites' = self.sites
    /\ gsc_service' = self.gsc_service
    /\ ga4_client' = self.ga4_client
    /\ credLoads' = self.credLoads
    /\ gscBuilds' = self.gscBuilds
    /\ ga4Builds' = self.ga4Builds

\* What a handler leaves behind: e is the result of
\* _ensure_services_initialized, r the result of the try block, errText the
\* text the except clause returns.  An error of e leaves the handler.
\* handlesBefore are the two handles as the handler found them, handles as
\* _ensure_services_initialized left them.
Handled(kind, name, arguments, uri, up, e, r, okText, errText) ==
    LET req == [kind |-> kind, name |-> name, arguments |-> arguments, uri |-> uri,
                up |-> up, initRan |-> e.ran,
                handlesBefore |-> <<gsc_service, ga4_client>>,
                handles |-> <<e.self.gsc_service, e.self.ga4_client>>]
    IN IF ~e.ok
       THEN req @@ [outcome |-> "raised", ok |-> FALSE, result |-> None,
                    payload |-> NoPayload, exc |-> e.exc, calls |-> <<>>]
       ELSE IF r.ok
       THEN req @@ [outcome |-> "returned", ok |-> TRUE, result |-> r.val,
                    payload |-> okText, exc |-> NoExc, calls |-> r.calls]
       ELSE req @@ [outcome |-> "returned", ok |-> FALSE, result |-> None,
                    payload |-> errText, exc |-> r.exc, calls |-> r.calls]

\* A request arrives once the previous response has been delivered.  The
\* model stops accepting requests that would load the credentials again
\* after MaxInitAttempts loads.
Receive(req) ==
    /\ pending = NoRequest
    /\ last = NoLast
    /\ NeedsInit(Self) => credLoads < MaxInitAttempts
    /\ pending' = req
    /\ UNCHANGED <<sites, gsc_service, ga4_client, credLoads, gscBuilds, ga4Builds, last>>

ReceiveTool ==
    \E name \in RequestedNames, arguments \in ArgBags :
        Receive([op |-> "tool", name |-> name, arguments |-> arguments, uri |-> <<>>])

ReceiveResource ==
    \E uri \in RequestedUris :
        Receive([op |-> "resource", name |-> "", arguments |-> <<>>, uri |-> uri])

HandleCallTool(name, arguments, io, up) ==
    /\ LET e == EnsureServicesInitialized(Self, io)
           r == DispatchTool(e.self, name, arguments, up)
       IN /\ SetSelf(e.self)
          /\ last' = Handled("tool", name, arguments, <<>>, up, e, r,
                             <<TextContent(JsonDumps(r.val))>>,
                             <<TextContent(PlainText(ToolErrorMsg(name, r.exc)))>>)
    /\ pending' = NoRequest

HandleReadResource(uri, io, up) ==
    /\ LET e == EnsureServicesInitialized(Self, io)
           r == ReadResource(e.self, uri, up)
       IN /\ SetSelf(e.self)
          /\ last' = Handled("resource", "", <<>>, uri, up, e, r,
                             JsonDumps(r.val),
                             JsonDumps([error |-> ResourceErrorMsg(uri, r.exc)]))
    /\ pending' = NoRequest

\* The outcomes of the library calls a request may meet: they are consulted
\* only when the handles are not both set.
IOs == IF NeedsInit(Self) THEN InitIO ELSE {AllOk}

CallTool ==
    /\ pending.op = "tool"
    /\ \E io \in IOs :
         \E up \in (IF EnsureServicesInitialized(Self, io).ok
                    THEN ToolScripts(pending.name, pending.arguments) ELSE {NoUp}) :
            HandleCallTool(pending.name, pending.arguments, io, up)

ReadResourceRequest ==
    /\ pending.op = "resource"
    /\ \E io \in IOs :
         \E up \in (IF EnsureServicesInitialized(Self, io).ok
                    THEN ResourceScripts(pending.uri) ELSE {NoUp}) :
            HandleReadResource(pending.uri, io, up)

\* The response (or the error that left the handler) reaches the caller.
Deliver ==
    /\ pending = NoRequest
    /\ last # NoLast
    /\ last' = NoLast
    /\ UNCHANGED <<sites, gsc_service, ga4_client, credLoads, gscBuilds, ga4Builds, pending>>

Next == ReceiveTool \/ ReceiveResource \/ CallTool \/ ReadResourceRequest \/ Deliver

Spec == Init /\ [][Next]_vars

(***************************************************************************)
(* The composers on their own: the instance is in the state the first      *)
(* successful _initialize_services leaves, one composer call is pending    *)
(* with the upstream answers it will meet, and the step makes the call.    *)
(***************************************************************************)
SeqsUpTo(S, n) == UNION {[1..k -> S] : k \in 0..n}

Patterns(S) == [1..PatLen -> S]

ComposerCall(name, arguments, up) ==
    [op |-> "composer", name |-> name, arguments |-> arguments, uri |-> <<>>, up |-> up]

Ga4ReportCalls ==
    {ComposerCall("_ga4_run_report",
                  [dimensions |-> ds, metrics |-> ms, start_date |-> "2024-01-01",
                   end_date |-> "2024-01-31", site |-> "vesivanov", limit |-> 100],
                  [gsc |-> GscNoRowsKey, ga4 |-> <<resp>>]) :
        ds \in SeqsUpTo({"pagePath", "pageTitle"}, MaxArity),
        ms \in SeqsUpTo({"sessions", "screenPageViews"}, MaxArity),
        resp \in {Ga4Error}
                 \cup {Ga4Ok(Ga4RowsOf(n, nd, nm, <<"/a">>)) :
                        n \in 0..MaxReshapeRows, nd \in 0..(MaxArity + 1),
                        nm \in 0..(MaxArity + 1)}}

OverviewCalls ==
    {ComposerCall("_ga4_traffic_overview",
                  [start_date |-> "2024-01-01", end_date |-> "2024-01-31", site |-> site],
                  [gsc |-> GscNoRowsKey, ga4 |-> <<resp>>]) :
        site \in SiteArgs,
        resp \in {Ga4Error}
                 \cup {Ga4Ok(Ga4RowsOf(n, 0, Len(OverviewMetrics), <<"/a">>)) :
                        n \in 0..MaxReshapeRows}}

CombinedCalls ==
    {ComposerCall("_combined_performance_report",
                  [start_date |-> "2024-01-01", end_date |-> "2024-01-31",
                   site |-> "mebelcenter"],
                  [gsc |-> g, ga4 |-> <<o, p, a>>]) :
        g \in {GscNoRowsKey} \cup {GscOk(GscRowsOf(n, <<"/a">>)) : n \in 0..MaxGscRows},
        o \in {Ga4Ok(Ga4RowsOf(n, 0, Len(OverviewMetrics), <<"/a">>)) : n \in 0..1},
        p \in {Ga4Ok(Ga4RowsOf(n, Len(TopPagesDimensions),
                               Len(TopPagesMetrics("sessions")), <<"/a", "/b">>)) :
                  n \in 0..MaxGa4Rows},
        a \in {Ga4Ok(Ga4RowsOf(n, Len(AcquisitionDimensions),
                               Len(AcquisitionMetrics), <<"google", "bing">>)) :
                  n \in 0..MaxGa4Rows}}

PageCalls ==
    {ComposerCall("_page_analysis",
                  [page_path |-> page_path, start_date |-> "2024-01-01",
                   end_date |-> "2024-01-31", site |-> "vesivanov"],
                  [gsc |-> g, ga4 |-> <<r>>]) :
        page_path \in {"/a", "/a/", "/A", "/c"},
        g \in {GscOk(GscRowsOf(n, pat)) :
                  n \in 0..MaxGscRows, pat \in Patterns({"/a", "/a/", NoKeys})},
        r \in {Ga4Ok(Ga4RowsOf(n, Len(PageDimensions), Len(PageMetrics), pat)) :
                  n \in 0..MaxGa4Rows, pat \in Patterns({"/a", "/A"})}}

ComposerInit ==
    /\ LET self == [sites |-> MakeSites(DefaultEnvironment), gsc_service |-> NoHandle,
                    ga4_client |-> NoHandle, credLoads |-> 0, gscBuilds |-> 0,
                    ga4Builds |-> 0]
           ready == InitializeServices(self, AllOk).self
       IN /\ sites = ready.sites
          /\ gsc_service = ready.gsc_service
          /\ ga4_client = ready.ga4_client
          /\ credLoads = ready.credLoads
          /\ gscBuilds = ready.gscBuilds
          /\ ga4Builds = ready.ga4Builds
    /\ pending \in Ga4ReportCalls \cup OverviewCalls \cup CombinedCalls \cup PageCalls
    /\ last = NoLast

Composed(r) ==
    /\ last' = [kind |-> "composer", name |-> pending.name,
                arguments |-> pending.arguments, uri |-> <<>>, up |-> pending.up,
                initRan |-> FALSE, handlesBefore |-> <<gsc_service, ga4_client>>,
                handles |-> <<gsc_service, ga4_client>>,
                outcome |-> IF r.ok THEN "returned" ELSE "raised",
                ok |-> r.ok, result |-> r.val, payload |-> NoPayload, exc |-> r.exc,
                calls |-> r.calls]
    /\ pending' = NoRequest
    /\ UNCHANGED <<sites, gsc_service, ga4_client, credLoads, gscBuilds, ga4Builds>>

RunGa4Report ==
    /\ pending.op = "composer"
    /\ pending.name = "_ga4_run_report"
    /\ LET a == pending.arguments IN
       Composed(Ga4RunReport(Self, a.dimensions, a.metrics, a.start_date, a.end_date,
                             a.site, a.limit, pending.up.ga4[1]))

RunTrafficOverview ==
    /\ pending.op = "composer"
    /\ pending.name = "_ga4_traffic_overview"
    /\ LET a == pending.arguments IN
       Composed(Ga4TrafficOverview(Self, a.start_date, a.end_date, a.site,
                                   pending.up.ga4[1]))

RunCombined ==
    /\ pending.op = "composer"
    /\ pending.name = "_combined_performance_report"
    /\ LET a == pending.arguments IN
       Composed(CombinedPerformanceReport(Self, a.start_date, a.end_date, a.site,
                                          pending.up))

RunPageAnalysis ==
    /\ pending.op = "composer"
    /\ pending.name = "_page_analysis"
    /\ LET a == pending.arguments IN
       Composed(PageAnalysis(Self, a.page_path, a.start_date, a.end_date, a.site,
                             pending.up))

ComposerNext == RunGa4Report \/ RunTrafficOverview \/ RunCombined \/ RunPageAnalysis

ComposerSpec == ComposerInit /\ [][ComposerNext]_vars

(***************************************************************************)
(* Properties of the dispatcher (specification Spec).                      *)
(***************************************************************************)
IsRequest(l) == l.kind \in {"tool", "resource"}

\* The text a handler returned: the single TextContent of a tool call, the
\* string of a resource read.
ReturnedText(l) == IF l.kind = "tool" THEN l.payload[1].text ELSE l.payload

\* The request ended in an error: one that left the handler, or an error payload.
ErrorOutcome(l) == l.outcome = "raised" \/ ~l.ok

\* pieces occur consecutively in msg
ContainsPieces(msg, pieces) ==
    \E i \in 0..(Len(msg) - Len(pieces)) :
        \A k \in 1..Len(pieces) : msg[i + k] = pieces[k]

\* C1: every tool invocation and every resource read returns a payload to
\* its caller; no error propagates past the handler.
C1_NoErrorEscapes == IsRequest(last) => last.outcome = "returned"

\* C2: every returned text is JSON of one of two shapes: the report
\* envelope of the operation on success, an object with the single field
\* "error" on failure (tool calls and resource reads alike).
C2_TwoJsonShapes ==
    (IsRequest(last) /\ last.outcome = "returned") =>
        /\ ReturnedText(last).fmt = "json"
        /\ last.ok => ReturnedText(last).value = last.result
        /\ ~last.ok => DOMAIN ReturnedText(last).value = {"error"}

\* C3: a tool invocation under a name that is not one of the seven
\* registered tools returns a payload whose text contains
\* "Unknown tool: <name>", and nothing is raised past the handler.
C3_UnknownToolReported ==
    (last.kind = "tool" /\ last.name \notin ToolNames) =>
        /\ last.outcome = "returned"
        /\ ContainsPieces(ReturnedText(last).value, <<"Unknown tool: ", last.name>>)

\* The site key a handled request names, "" when it names none
NamedSite(l) ==
    IF l.kind = "tool" THEN Get(l.arguments, "site", "")
    ELSE IF Len(Split(l.uri)) >= MinUriParts THEN Split(l.uri)[5] ELSE ""

NamesSite(l) ==
    IF l.kind = "tool" THEN "site" \in DOMAIN l.arguments
    ELSE Len(Split(l.uri)) >= MinUriParts

CallUsesSite(c, cfg) ==
    IF c.api = "gsc" THEN c.siteUrl = cfg.gsc_url
    ELSE c.property = "properties/" \o cfg.ga4_property_id

C4_SiteResolution ==
    (IsRequest(last) /\ NamesSite(last)) =>
        /\ NamedSite(last) \notin {"vesivanov", "mebelcenter"} =>
              ErrorOutcome(last) /\ last.calls = <<>>
        /\ NamedSite(last) \in {"vesivanov", "mebelcenter"} =>
              \A i \in 1..Len(last.calls) :
                  CallUsesSite(last.calls[i], sites[NamedSite(last)])

\* C4: a request naming a site key other than vesivanov and mebelcenter
\* ends in an error with no upstream call issued for it; a request naming a
\* registered key issues its upstream calls with that key's gsc_url and
\* ga4_property_id; the registry never changes.
C4_UnknownSiteFailsBeforeUpstream ==
    /\ [](DOMAIN sites = {"vesivanov", "mebelcenter"} /\ C4_SiteResolution)
    /\ [][sites' = sites]_vars

C4_Witness ==
    /\ last.kind = "tool"
    /\ last.name = "combined_performance_report"
    /\ NamedSite(last) = "unknownsite"
    /\ last.outcome = "returned"
    /\ last.exc.type = "KeyError"
    /\ last.calls = <<>>

BothSet == gsc_service # NoHandle /\ ga4_client # NoHandle

\* C5: once a call of _ensure_services_initialized has succeeded (both
\* handles are set), a later call loads no credentials, constructs no
\* client and leaves both handles as they are.
C5_InitOnce ==
    [][BothSet =>
         /\ credLoads' = credLoads
         /\ gscBuilds' = gscBuilds
         /\ ga4Builds' = ga4Builds
         /\ gsc_service' = gsc_service
         /\ ga4_client' = ga4_client
         /\ (IsRequest(last') /\ last' # last) => ~last'.initRan]_vars

\* A request handled without initialisation after the one load that succeeded
C5_Witness ==
    /\ BothSet
    /\ IsRequest(last)
    /\ ~last.initRan
    /\ credLoads = 1
    /\ gscBuilds = 1
    /\ ga4Builds = 1

WellFormedUri(uri) ==
    /\ Len(uri) = 8
    /\ SubSeq(uri, 1, 5) = <<"analytics:", "/", "/", "dashboard", "/">>
    /\ uri[6] \in Periods
    /\ uri[7] = "/"
    /\ uri[8] # "/"

\* C6: a resource read of a URI that is not
\* analytics://dashboard/<period>/<site> with a known period ends in an
\* error, and _combined_performance_report is not invoked for it.
C6_OnlyDashboardUris ==
    (last.kind = "resource" /\ ~WellFormedUri(last.uri)) =>
        /\ ErrorOutcome(last)
        /\ last.calls = <<>>
        /\ last.outcome = "returned" => last.exc.type = "ValueError"

(***************************************************************************)
(* Properties of the query builders and composers (ComposerSpec).          *)
(***************************************************************************)
Composed_(l, name) == l.kind = "composer" /\ l.name = name /\ l.ok

\* The name the claim gives the value at Python index i
ExpectedName(names, i, prefix) ==
    IF i < Len(names) THEN names[i + 1] ELSE prefix \o ToString(i)

\* The value a reshaped row must hold under key k: the one written last,
\* dimension values being written before metric values, each in index order.
LastWritten(k, dimensions, metrics, row) ==
    LET mi == {i \in 0..(Len(row.metric_values) - 1) :
                  ExpectedName(metrics, i, "metric_") = k}
        di == {i \in 0..(Len(row.dimension_values) - 1) :
                  ExpectedName(dimensions, i, "dimension_") = k}
        Max(S) == CHOOSE i \in S : \A j \in S : j <= i
    IN IF mi # {} THEN row.metric_values[Max(mi) + 1]
       ELSE row.dimension_values[Max(di) + 1]

ExpectedKeys(dimensions, metrics, row) ==
    {ExpectedName(dimensions, i, "dimension_") : i \in 0..(Len(row.dimension_values) - 1)}
    \cup {ExpectedName(metrics, i, "metric_") : i \in 0..(Len(row.metric_values) - 1)}

\* The reshaped form of an upstream row
Reshaped(dimensions, metrics, row) ==
    [k \in ExpectedKeys(dimensions, metrics, row) |->
        LastWritten(k, dimensions, metrics, row)]

\* C7: _ga4_run_report emits one row per upstream row, in upstream order,
\* with row_count their number; in each row the i-th dimension value is
\* under dimensions[i] when i is below the number of requested dimensions
\* and under dimension_<i> otherwise, and likewise the metric values under
\* metrics[i] and metric_<i>.
C7_PositionalNames ==
    Composed_(last, "_ga4_run_report") =>
        LET upstream == last.up.ga4[1].rows
            out == last.result
        IN /\ Len(out.data) = Len(upstream)
           /\ out.row_count = Len(upstream)
           /\ \A j \in 1..Len(upstream) :
                 out.data[j] = Reshaped(last.arguments.dimensions,
                                        last.arguments.metrics, upstream[j])

\* Two rows, each with a named and a synthetic dimension and metric
C7_Witness ==
    /\ Composed_(last, "_ga4_run_report")
    /\ Len(last.result.data) = 2
    /\ last.arguments.dimensions = <<"pagePath">>
    /\ last.arguments.metrics = <<"sessions", "screenPageViews">>
    /\ DOMAIN last.result.data[2] =
          {"pagePath", "dimension_1", "sessions", "screenPageViews", "metric_2"}
    /\ last.result.data[1] # last.result.data[2]

\* C8: the envelope of _ga4_traffic_overview has exactly one of the keys
\* 'overview' and 'data': with at least one upstream row, 'overview' is the
\* first row (the seven metrics under their names) and 'data' is gone; with
\* no upstream row, 'overview' is absent and 'data' is the empty list.
C8_OverviewOrData ==
    Composed_(last, "_ga4_traffic_overview") =>
        LET upstream == last.up.ga4[1].rows
            out == last.result
        IN /\ ("overview" \in DOMAIN out) # ("data" \in DOMAIN out)
           /\ upstream # <<>> =>
                 /\ "data" \notin DOMAIN out
                 /\ "overview" \in DOMAIN out
                 /\ DOMAIN out.overview =
                       {OverviewMetrics[i] : i \in 1..Len(OverviewMetrics)}
                 /\ \A i \in 1..Len(OverviewMetrics) :
                       out.overview[OverviewMetrics[i]] = upstream[1].metric_values[i]
           /\ upstream = <<>> =>
                 /\ "overview" \notin DOMAIN out
                 /\ "data" \in DOMAIN out
                 /\ out.data = <<>>

C8_Witness ==
    /\ Composed_(last, "_ga4_traffic_overview")
    /\ Len(last.up.ga4[1].rows) >= 1
    /\ "overview" \in DOMAIN last.result
    /\ last.result.overview["sessionsPerUser"] = last.up.ga4[1].rows[1].metric_values[7]

\* C9: with n GSC rows, p page rows and s source rows upstream,
\* _combined_performance_report returns the first min(n,10) GSC rows, the
\* first min(p,5) page rows and the first min(s,5) source rows, in upstream
\* order, and requests the row limits 20, 10 and 10 from upstream.
C9_CombinedTruncation ==
    Composed_(last, "_combined_performance_report") =>
        LET gsc == Get(last.up.gsc.body, "rows", <<>>)
            pages == last.up.ga4[2].rows
            sources == last.up.ga4[3].rows
            out == last.result
            MinOf(a, b) == IF a < b THEN a ELSE b
        IN /\ out.search_console.top_queries = SubSeq(gsc, 1, MinOf(Len(gsc), 10))
           /\ Len(out.google_analytics.top_pages) = MinOf(Len(pages), 5)
           /\ \A j \in 1..MinOf(Len(pages), 5) :
                 out.google_analytics.top_pages[j] =
                    Reshaped(<<"pagePath", "pageTitle">>,
                             <<"screenPageViews", "sessions", "totalUsers", "bounceRate">>,
                             pages[j])
           /\ Len(out.google_analytics.top_sources) = MinOf(Len(sources), 5)
           /\ \A j \in 1..MinOf(Len(sources), 5) :
                 out.google_analytics.top_sources[j] =
                    Reshaped(<<"sessionSource", "sessionMedium">>,
                             <<"sessions", "totalUsers", "newUsers", "bounceRate",
                               "averageSessionDuration">>,
                             sources[j])
           /\ Len(last.calls) = 4
           /\ last.calls[1].body.rowLimit = 20
           /\ last.calls[3].limit = 10
           /\ last.calls[4].limit = 10

\* More rows upstream than are kept, in each of the three lists
C9_Witness ==
    /\ Composed_(last, "_combined_performance_report")
    /\ Len(last.up.gsc.body.rows) > 10
    /\ Len(last.up.ga4[2].rows) > 5
    /\ Len(last.up.ga4[3].rows) > 5
    /\ Len(last.result.search_console.top_queries) = 10
    /\ Len(last.result.google_analytics.top_pages) = 5
    /\ Len(last.result.google_analytics.top_sources) = 5

\* The indices of the upstream GSC rows whose first key is page_path
GscMatches(rows, page_path) ==
    {i \in 1..Len(rows) :
        "keys" \in DOMAIN rows[i] /\ rows[i].keys # <<>> /\ rows[i].keys[1] = page_path}

\* The indices of the upstream GA4 rows whose pagePath is page_path
Ga4Matches(rows, page_path) ==
    {i \in 1..Len(rows) :
        rows[i].dimension_values # <<>> /\ rows[i].dimension_values[1] = page_path}

\* C10: page_data is the first GA4 row whose pagePath equals page_path, or
\* None when there is none; top_queries is the first at most 10 GSC rows
\* whose first key equals page_path, in upstream order; queries_count is
\* the number of all such GSC rows.
C10_PageFilter ==
    Composed_(last, "_page_analysis") =>
        LET page_path == last.arguments.page_path
            gsc == Get(last.up.gsc.body, "rows", <<>>)
            ga4 == last.up.ga4[1].rows
            gm == GscMatches(gsc, page_path)
            am == Ga4Matches(ga4, page_path)
            out == last.result
            top == out.search_console.top_queries
        IN /\ out.search_console.queries_count = Cardinality(gm)
           /\ Len(top) = IF Cardinality(gm) < 10 THEN Cardinality(gm) ELSE 10
           /\ \A k \in 1..Len(top) :
                 \E i \in gm : /\ Cardinality({j \in gm : j <= i}) = k
                               /\ top[k] = gsc[i]
           /\ am = {} => out.google_analytics.page_data = NoneDict
           /\ am # {} =>
                 out.google_analytics.page_data =
                    Reshaped(<<"pagePath">>,
                             <<"screenPageViews", "sessions", "totalUsers", "bounceRate",
                               "averageSessionDuration">>,
                             ga4[CHOOSE i \in am : \A j \in am : i <= j])

\* More than 10 matching GSC rows; two matching GA4 rows after a row of
\* another page
C10_Witness ==
    /\ Composed_(last, "_page_analysis")
    /\ last.result.search_console.queries_count > 10
    /\ Len(last.result.search_console.top_queries) = 10
    /\ Cardinality(Ga4Matches(last.up.ga4[1].rows, last.arguments.page_path)) >= 2
    /\ 1 \notin Ga4Matches(last.up.ga4[1].rows, last.arguments.page_path)
    /\ last.result.google_analytics.page_data # NoneDict

\* Rows of other pages upstream on both sides, fewer than all rows matching
C10_WitnessMixed ==
    /\ Composed_(last, "_page_analysis")
    /\ last.result.search_console.queries_count \in 1..(Len(last.up.gsc.body.rows) - 1)
    /\ last.result.google_analytics.page_data = NoneDict
    /\ last.up.ga4[1].rows # <<>>

(***************************************************************************)
(* Concurrent first use (specification RaceSpec).  The requests of a       *)
(* session are handled as tasks of one event loop.  No await of            *)
(* handle_call_tool or handle_read_resource suspends: every coroutine they *)
(* await (_ensure_services_initialized, _initialize_services, the          *)
(* composers) makes only blocking library calls, so a handler runs from    *)
(* its first line to its return before another task is scheduled.  The     *)
(* racing requests have all arrived while both handles were unset; pending *)
(* maps a racer to its request, last to what its handler left behind, and  *)
(* the handlers run in any order.                                          *)
(***************************************************************************)
MaxRacers == 2

RaceRequests ==
    {[op |-> "tool", name |-> "gsc_top_queries", arguments |-> BaseArgs, uri |-> <<>>],
     [op |-> "tool", name |-> "ga4_traffic_overview", arguments |-> BaseArgs, uri |-> <<>>],
     [op |-> "resource", name |-> "", arguments |-> <<>>,
      uri |-> Uri("analytics:", "dashboard", "week", "vesivanov")]}

RaceCombinedScripts ==
    {[gsc |-> g,
      ga4 |-> <<Ga4Ok(Ga4RowsOf(1, 0, Len(OverviewMetrics), <<"/a">>)),
                Ga4Ok(Ga4RowsOf(1, Len(TopPagesDimensions),
                                Len(TopPagesMetrics("screenPageViews")), <<"/a">>)),
                a>>] :
        g \in {GscHttpError, GscOk(GscRowsOf(1, <<"/a">>))},
        a \in {Ga4Error, Ga4Ok(Ga4RowsOf(1, Len(AcquisitionDimensions),
                                         Len(AcquisitionMetrics), <<"/a">>))}}

RaceScripts(req) ==
    IF req.op = "tool" THEN ToolScripts(req.name, req.arguments) ELSE RaceCombinedScripts

RaceInit ==
    /\ \E env \in Environments : Constructed(env)
    /\ \E n \in 2..MaxRacers :
         /\ pending \in [1..n -> RaceRequests]
         /\ last = [i \in 1..n |-> NoLast]

Racers == DOMAIN pending

\* handle_call_tool run for racer i
RaceCallTool(i, io, up) ==
    LET req == pending[i]
        e == EnsureServicesInitialized(Self, io)
        r == DispatchTool(e.self, req.name, req.arguments, up)
    IN /\ SetSelf(e.self)
       /\ last' = [last EXCEPT ![i] =
                      Handled("tool", req.name, req.arguments, <<>>, up, e, r,
                              <<TextContent(JsonDumps(r.val))>>,
                              <<TextContent(PlainText(ToolErrorMsg(req.name, r.exc)))>>)]
       /\ UNCHANGED pending

\* handle_read_resource run for racer i
RaceReadResource(i, io, up) ==
    LET req == pending[i]
        e == EnsureServicesInitialized(Self, io)
        r == ReadResource(e.self, req.uri, up)
    IN /\ SetSelf(e.self)
       /\ last' = [last EXCEPT ![i] =
                      Handled("resource", "", <<>>, req.uri, up, e, r,
                              JsonDumps(r.val),
                              JsonDumps([error |-> ResourceErrorMsg(req.uri, r.exc)]))]
       /\ UNCHANGED pending

RaceUps(i, io) ==
    IF EnsureServicesInitialized(Self, io).ok THEN RaceScripts(pending[i]) ELSE {NoUp}

RaceTool ==
    \E i \in Racers :
        /\ last[i] = NoLast
        /\ pending[i].op = "tool"
        /\ \E io \in IOs : \E up \in RaceUps(i, io) : RaceCallTool(i, io, up)

RaceResource ==
    \E i \in Racers :
        /\ last[i] = NoLast
        /\ pending[i].op = "resource"
        /\ \E io \in IOs : \E up \in RaceUps(i, io) : RaceReadResource(i, io, up)

RaceNext == RaceTool \/ RaceResource

RaceSpec == RaceInit /\ [][RaceNext]_vars

RacersDone == {i \in Racers : IsRequest(last[i])}
RacersFailed == {i \in RacersDone : last[i].outcome = "raised"}
RacersPassed == RacersDone \ RacersFailed

\* C11 as stated: when every racing request has been handled, the
\* credentials have been loaded once, each client constructed once, and all
\* racers have the same pair of handles.
C11_ExactlyOnce ==
    (RacersDone = Racers) =>
        /\ credLoads = 1
        /\ gscBuilds = 1
        /\ ga4Builds = 1
        /\ \A i, j \in Racers : last[i].handles = last[j].handles

\* C11: among requests racing for the first use, _initialize_services
\* succeeds at most once; the credentials are loaded once by every racer
\* whose initialisation failed and once by the one whose initialisation
\* succeeded, and by no racer after that; every racer that got past
\* initialisation has the same pair of handles, both set, and issues its
\* upstream calls via them; and when no initialisation fails the load and
\* the two constructions happen exactly once in total.
C11_SucceedsOnce ==
    /\ ga4Builds <= 1
    /\ credLoads = Cardinality(RacersFailed) + ga4Builds
    /\ gscBuilds <= credLoads
    /\ Cardinality({i \in RacersPassed : last[i].initRan}) = ga4Builds
    /\ \A i \in RacersFailed : last[i].initRan
    /\ \A i \in RacersPassed :
         /\ last[i].handles = <<gsc_service, ga4_client>>
         /\ BothSet
         /\ \A k \in 1..Len(last[i].calls) :
              last[i].calls[k].via \in {gsc_service, ga4_client}
    /\ (RacersFailed = {} /\ RacersDone # {}) =>
         (credLoads = 1 /\ gscBuilds = 1 /\ ga4Builds = 1)

\* Two racers got past initialisation and called upstream: one initialised,
\* the other found the handles set.
C11_Witness ==
    /\ RacersDone = Racers
    /\ RacersFailed = {}
    /\ credLoads = 1
    /\ \E i, j \in Racers :
         /\ last[i].initRan
         /\ ~last[j].initRan
         /\ last[i].calls # <<>>
         /\ last[j].calls # <<>>
         /\ last[i].handles = last[j].handles

\* A racer's initialisation failed after the GSC client was built and the
\* next racer initialised again.
C11_WitnessRetry ==
    /\ RacersDone = Racers
    /\ credLoads = 2
    /\ gscBuilds = 2
    /\ ga4Builds = 1
    /\ RacersPassed # {}

(***************************************************************************)
(* The dispatcher state: Uninitialized while a handle is unset, Ready once *)
(* both are set (specification Spec).                                      *)
(***************************************************************************)
Handles == <<gsc_service, ga4_client>>

\* C12: Ready is entered only by a tool call or resource read whose
\* initialisation ran and succeeded, every handler that gets past
\* _ensure_services_initialized leaves the dispatcher Ready, one that is
\* left by the initialisation error leaves it Uninitialized, and from Ready
\* no step, of a successful or failed request, unsets or replaces a handle.
C12_ReadyForGood ==
    [][/\ BothSet => (BothSet' /\ Handles' = Handles)
       /\ (~BothSet /\ BothSet') =>
             (IsRequest(last') /\ last'.initRan /\ last'.outcome = "returned")
       /\ (IsRequest(last') /\ last' # last) =>
             (BothSet' <=> last'.outcome = "returned")]_vars

\* A request failed at an upstream call after Ready was entered by an
\* earlier request, and the handles are the ones it found.
C12_Witness ==
    /\ BothSet
    /\ IsRequest(last)
    /\ last.outcome = "returned"
    /\ ~last.ok
    /\ last.calls # <<>>
    /\ ~last.initRan
    /\ last.handlesBefore = Handles

(***************************************************************************)
(* Upstream calls of one request (specification Spec).                     *)
(***************************************************************************)
Ga4CallsUpTo(calls, i) == Cardinality({k \in 1..i : calls[k].api = "ga4"})

\* The upstream answer the i-th call of a request met
Answer(l, i) ==
    IF l.calls[i].api = "gsc" THEN l.up.gsc ELSE l.up.ga4[Ga4CallsUpTo(l.calls, i)]

\* C13: within one request an upstream call that failed is the last call
\* the request issues (it is not issued again and the remaining calls of
\* _combined_performance_report and _page_analysis are skipped), the
\* request then ends with an error outcome, and no upstream call is issued
\* twice.
C13_NoRetries ==
    IsRequest(last) =>
        /\ \A i \in 1..Len(last.calls) :
             Answer(last, i).fail # "none" =>
                 (i = Len(last.calls) /\ ErrorOutcome(last) /\ ~last.ok)
        /\ \A i, j \in 1..Len(last.calls) : i # j => last.calls[i] # last.calls[j]
        /\ Len(last.calls) <= 1 + Len(last.up.ga4)

\* The second of the four calls of a combined report failed and the two
\* remaining calls, which would have succeeded, were not issued.
C13_Witness ==
    /\ IsRequest(last)
    /\ Len(last.up.ga4) = 3
    /\ Len(last.calls) = 2
    /\ last.up.gsc.fail = "none"
    /\ last.up.ga4[1].fail # "none"
    /\ last.up.ga4[2].fail = "none"
    /\ last.up.ga4[3].fail = "none"
    /\ ~last.ok
    /\ last.outcome = "returned"

(***************************************************************************)
(* The four calls of _combined_performance_report taken in another order.  *)
(* The code awaits them in the order 1 (GSC queries), 2 (GA4 overview),    *)
(* 3 (GA4 top pages), 4 (GA4 acquisition); executed in the order given,    *)
(* each call meets the upstream answer assigned to it and the first one    *)
(* that raises ends the report.                                            *)
(***************************************************************************)
CombinedCallResults(self, start_date, end_date, site, up) ==
    <<GscSearchAnalytics(self, start_date, end_date, site, <<"query">>,
                         CombinedGscRowLimit, up.gsc),
      Ga4TrafficOverview(self, start_date, end_date, site, up.ga4[1]),
      Ga4TopPages(self, start_date, end_date, site, "screenPageViews",
                  CombinedPagesLimit, up.ga4[2]),
      Ga4AcquisitionReport(self, start_date, end_date, site, CombinedSourcesLimit,
                           up.ga4[3])>>

Orders == {o \in [1..4 -> 1..4] : \A i, j \in 1..4 : i # j => o[i] # o[j]}

CodeOrder == [i \in 1..4 |-> i]

OutcomeOf(ok, val, exc) == [ok |-> ok, val |-> val, exc |-> exc]

\* The outcome of the report when the four calls, with results rs, are
\* executed in the given order
OutcomeInOrder(rs, order, site, start_date, end_date) ==
    LET failing == {i \in 1..4 : ~rs[order[i]].ok}
        first == CHOOSE i \in failing : \A k \in failing : i <= k
    IN IF failing = {}
       THEN OutcomeOf(TRUE, CombinedEnvelope(site, start_date, end_date, rs[1].val,
                                             rs[2].val, rs[3].val, rs[4].val), NoExc)
       ELSE OutcomeOf(FALSE, None, rs[order[first]].exc)

IsCombinedTool(l) ==
    /\ l.kind = "tool"
    /\ l.name = "combined_performance_report"
    /\ Binds(l.name, l.arguments)
    /\ l.outcome = "returned"

LastCombinedResults ==
    CombinedCallResults(Self, last.arguments["start_date"], last.arguments["end_date"],
                        Get(last.arguments, "site", DefaultSite), last.up)

LastInOrder(order) ==
    OutcomeInOrder(LastCombinedResults, order, Get(last.arguments, "site", DefaultSite),
                   last.arguments["start_date"], last.arguments["end_date"])

LastOutcome == OutcomeOf(last.ok, last.result, last.exc)

C14_WitnessTwoFailures ==
    /\ IsCombinedTool(last)
    /\ last.up.gsc.fail = "HttpError"
    /\ last.up.ga4[3].fail # "none"
    /\ \E order \in Orders : LastInOrder(order) # LastOutcome

(***************************************************************************)
(* Upstream calls and the handles (specification Spec).                    *)
(***************************************************************************)
Unset(handles) == handles[1] = NoHandle \/ handles[2] = NoHandle

\* C15: a handler that finds a handle unset runs _initialize_services
\* before anything else; when that fails the request ends with the
\* initialisation error and no upstream call; the try block, and with it
\* every composer, runs with both handles set, and every upstream call is
\* issued via the set handle of its service.
C15_CallsNeedBothHandles ==
    IsRequest(last) =>
        /\ Unset(last.handlesBefore) <=> last.initRan
        /\ last.outcome = "raised" =>
             (last.initRan /\ last.calls = <<>> /\ Unset(last.handles))
        /\ last.outcome = "returned" => ~Unset(last.handles)
        /\ \A i \in 1..Len(last.calls) :
             /\ ~Unset(last.handles)
             /\ last.calls[i].via # NoHandle
             /\ last.calls[i].via =
                    (IF last.calls[i].api = "gsc" THEN last.handles[1] ELSE last.handles[2])

\* A request found the GSC handle set and the GA4 handle unset (an earlier
\* initialisation failed at the GA4 client), initialised again and then
\* called upstream.
C15_Witness ==
    /\ IsRequest(last)
    /\ last.handlesBefore[1] # NoHandle
    /\ last.handlesBefore[2] = NoHandle
    /\ last.initRan
    /\ last.outcome = "returned"
    /\ last.calls # <<>>

\* A request found only the GSC handle set and its initialisation failed too.
C15_WitnessFailedAgain ==
    /\ IsRequest(last)
    /\ last.handlesBefore[1] # NoHandle
    /\ last.handlesBefore[2] = NoHandle
    /\ last.outcome = "raised"
    /\ last.calls = <<>>

(***************************************************************************)
(* Field counts of the rows the GA4 tools return (specification Spec).     *)
(***************************************************************************)
Ga4Tools == {"ga4_traffic_overview", "ga4_top_pages", "ga4_acquisition_report", "page_analysis"}

\* The last GA4 answer a request met
Ga4Answer(l) == l.up.ga4[Len(l.up.ga4)]

\* The upstream rows that reach the result of a GA4 tool, in order
RowsIn(l) ==
    CASE l.name = "ga4_traffic_overview" -> Take(Ga4Answer(l).rows, 1)
      [] l.name = "page_analysis" ->
            Take(SelectSeq(Ga4Answer(l).rows,
                           LAMBDA row : row.dimension_values[1] = l.arguments["page_path"]), 1)
      [] OTHER -> Ga4Answer(l).rows

\* The reshaped rows in the result of a GA4 tool, in order
RowsOut(l) ==
    CASE l.name = "ga4_traffic_overview" ->
            IF "overview" \in DOMAIN l.result THEN <<l.result.overview>> ELSE <<>>
      [] l.name = "page_analysis" ->
            IF l.result.google_analytics.page_data # NoneDict
            THEN <<l.result.google_analytics.page_data>> ELSE <<>>
      [] OTHER -> l.result.data

Distinct(names) == \A i, j \in 1..Len(names) : i # j => names[i] # names[j]

\* C16: for every GA4 tool call that succeeded, the field names requested
\* upstream are pairwise distinct and each row of the result has as many
\* fields as its upstream row has dimension values and metric values.
C16_NoValueLost ==
    (last.kind = "tool" /\ last.name \in Ga4Tools /\ last.ok) =>
        /\ \A i \in 1..Len(last.calls) :
             last.calls[i].api = "ga4" =>
                 Distinct(last.calls[i].dimensions \o last.calls[i].metrics)
        /\ Len(RowsOut(last)) = Len(RowsIn(last))
        /\ \A j \in 1..Len(RowsOut(last)) :
             Cardinality(DOMAIN RowsOut(last)[j]) =
                 Len(RowsIn(last)[j].dimension_values) + Len(RowsIn(last)[j].metric_values)
====
